---------------------------- MODULE Spec2Model ----------------------------
(***************************************************************************)
(* A model of typst-ffi/src/lib.rs: the font loader                        *)
(* (SharedResources::new), the sandboxed resolver                          *)
(* (SingleSourceWorld::resolve_path, source, file), the compile call       *)
(* (typst_world_compile) and the ownership protocol of the C boundary      *)
(* (typst_world_new, typst_world_free, typst_free_result, make_error).     *)
(*                                                                         *)
(* The typst engine (typst::compile, typst_pdf::pdf), the font decoder     *)
(* (Font::new) and the operating system (canonicalize, read) are outside   *)
(* the file.  The engine and the renderer are nondeterministic outcomes,   *)
(* the font decoder is an input, and the file system is a finite tree of   *)
(* directories, files and symbolic links that stays fixed during a run.    *)
(***************************************************************************)
EXTENDS Integers, Sequences, FiniteSets, TLC

VARIABLES
    \* the resolver
    fs,          \* the file system: canonical path -> node
    world,       \* the SingleSourceWorld of the call, once built
    lookup,      \* the lookup in flight through the world and its result
    \* the font loader
    font_data,   \* the bundled and the custom font blobs
    loader,      \* SharedResources::new: its position, fonts and book
    \* one compile call
    call,        \* the arguments of typst_world_compile
    cpc,         \* the position of the call
    locals,      \* source_text, root and package_cache once decoded
    engine_out,  \* what typst::compile and typst_pdf::pdf returned
    result,      \* the TypstResult returned
    effects,     \* the file system operations and the steps made so far
    \* the boundary
    heap,        \* every allocation handed across the boundary
    held,        \* what the caller holds and what it has released
    calls        \* the compile calls in flight, one per thread

resolveVars == <<fs, world, lookup>>
fontVars == <<font_data, loader>>
compileVars == <<call, cpc, locals, engine_out, result, effects>>
memVars == <<heap, held, calls>>
vars == <<resolveVars, fontVars, compileVars, memVars>>

----------------------------------------------------------------------------
(* Bounds of the model. *)

\* the longest virtual path of a file reference, in components
MaxVpathLen == 3
\* the symbolic links canonicalize follows before it gives up (ELOOP)
MaxLinkDepth == 3
\* the most custom font blobs handed to SharedResources::new
MaxCustomFonts == 2
\* the most face indices of one font blob
MaxFaces == 2
\* the most warnings, and the most errors, one engine step reports
MaxDiag == 2
\* the allocations that may be live when a create or a compile call starts
MaxAllocs == 2

----------------------------------------------------------------------------
(* Option, FileResult, FileId and paths. *)

None == [some |-> FALSE]
Some(x) == [some |-> TRUE, val |-> x]

\* A path as Path::components sees it: absolute or not, and its components.
AbsPath(comps) == [abs |-> TRUE, comps |-> comps]
RelPath(comps) == [abs |-> FALSE, comps |-> comps]

Ok(v) == [tag |-> "Ok", val |-> v]
NotFound(vpath) == [tag |-> "NotFound", path |-> vpath]
AccessDenied == [tag |-> "AccessDenied"]

PackageSpec(ns, name, version) ==
    [namespace |-> ns, name |-> name, version |-> version]
FileId(package, vpath) == [package |-> package, vpath |-> vpath]

\* FileId::new(None, VirtualPath::new("/main.typ"))
main_id == FileId(None, <<"main.typ">>)

----------------------------------------------------------------------------
(* The file system. *)

Dir == [kind |-> "dir"]
FileWith(bytes) == [kind |-> "file", bytes |-> bytes]
\* a text file: "hi"
File == FileWith(<<104, 105>>)
Link(target) == [kind |-> "link", target |-> target]

\* The working directory of the process, which a relative path starts from.
Cwd == <<>>

Parent(p) == IF p = <<>> THEN <<>> ELSE SubSeq(p, 1, Len(p) - 1)

\* realpath: walk `rest` from the resolved directory `cur`, following links.
RECURSIVE Walk(_, _, _)
Walk(cur, rest, fuel) ==
    IF rest = <<>> THEN [ok |-> TRUE, path |-> cur]
    ELSE IF fs[cur].kind # "dir" THEN [ok |-> FALSE]
    ELSE LET c == Head(rest) IN
         IF c = "." THEN Walk(cur, Tail(rest), fuel)
         ELSE IF c = ".." THEN Walk(Parent(cur), Tail(rest), fuel)
         ELSE LET p == Append(cur, c) IN
              IF p \notin DOMAIN fs THEN [ok |-> FALSE]
              ELSE IF fs[p].kind = "link"
                   THEN IF fuel = 0 THEN [ok |-> FALSE]
                        ELSE Walk(IF fs[p].target.abs THEN <<>> ELSE cur,
                                  fs[p].target.comps \o Tail(rest), fuel - 1)
                   ELSE Walk(p, Tail(rest), fuel)

\* Path::canonicalize: Ok(path) with every link and `..` resolved, or Err.
canonicalize(path) ==
    Walk(IF path.abs THEN <<>> ELSE Cwd, path.comps, MaxLinkDepth)

\* Path::join with a relative (rootless) second path.
join(base, rel) == [abs |-> base.abs, comps |-> base.comps \o rel]

\* Path::starts_with on canonical paths: a prefix by whole components.
starts_with(path, base) ==
    /\ Len(base) <= Len(path)
    /\ SubSeq(path, 1, Len(base)) = base

----------------------------------------------------------------------------
(* SingleSourceWorld. *)

NoWorld == [built |-> FALSE]

\* root.as_ref().and_then(|r| r.canonicalize().ok())
CanonicalRootOf(root) ==
    IF ~root.some THEN None
    ELSE LET c == canonicalize(root.val) IN
         IF c.ok THEN Some(c.path) ELSE None

SingleSourceWorld_new(source_text, root, package_cache) ==
    [built |-> TRUE,
     source |-> [id |-> main_id, text |-> source_text],
     root |-> root,
     canonical_root |-> CanonicalRootOf(root),
     package_cache |-> package_cache]

\* The base of a local file: the root and the canonical root computed once.
LocalBase_denied(w, vpath) ==
    IF ~w.root.some THEN [ok |-> FALSE, err |-> NotFound(vpath)]
    ELSE IF ~w.canonical_root.some THEN [ok |-> FALSE, err |-> AccessDenied]
    ELSE [ok |-> TRUE, base |-> w.root.val,
          canonical_base |-> w.canonical_root.val]

LocalBase(w, vpath) ==
    IF ~w.root.some THEN [ok |-> FALSE, err |-> NotFound(vpath)]
    ELSE IF ~w.canonical_root.some
         THEN [ok |-> FALSE, err |-> NotFound(vpath)]
    ELSE [ok |-> TRUE, base |-> w.root.val,
          canonical_base |-> w.canonical_root.val]

\* The base of a package file: {cache}/{namespace}/{name}/{version}, and its
\* canonical form.
PackageBase_aslocal(w, pkg, vpath) == LocalBase(w, vpath)

PackageBase(w, pkg, vpath) ==
    IF ~w.package_cache.some THEN [ok |-> FALSE, err |-> NotFound(vpath)]
    ELSE LET b == join(w.package_cache.val,
                       <<pkg.namespace, pkg.name, pkg.version>>)
             cb == canonicalize(b)
         IN IF ~cb.ok THEN [ok |-> FALSE, err |-> NotFound(vpath)]
            ELSE [ok |-> TRUE, base |-> b, canonical_base |-> cb.path]

\* The containment check of the canonical candidate.
Contained_uncanon(full, canonical, base, canonical_base) ==
    starts_with(full.comps, base.comps)

Contained_nearbase(full, canonical, base, canonical_base) ==
    starts_with(canonical, Parent(canonical_base))

Contained(full, canonical, base, canonical_base) ==
    starts_with(canonical, canonical_base)

resolve_path(w, id) ==
    LET vpath == id.vpath
        bc == IF id.package.some THEN PackageBase(w, id.package.val, vpath)
              ELSE LocalBase(w, vpath)
    IN IF ~bc.ok THEN bc.err
       ELSE LET full == join(bc.base, vpath)
                canonical == canonicalize(full)
            IN IF ~canonical.ok THEN NotFound(vpath)
               ELSE IF ~Contained(full, canonical.path,
                                  bc.base, bc.canonical_base)
                    THEN AccessDenied
                    ELSE Ok(canonical.path)

----------------------------------------------------------------------------
(* The parts of the state a specification leaves alone. *)

IdleResolve ==
    /\ fs = (<<>> :> Dir)
    /\ world = NoWorld
    /\ lookup = [op |-> "none"]

IdleFonts ==
    /\ font_data = [bundled |-> <<>>, custom |-> <<>>]
    /\ loader = [phase |-> "idle"]

IdleCompile ==
    /\ call = [made |-> FALSE]
    /\ cpc = "idle"
    /\ locals = [source_text |-> None, root |-> None, package_cache |-> None]
    /\ engine_out = [compiled |-> None, rendered |-> None]
    /\ result = None
    /\ effects = [fs_ops |-> {}, steps |-> <<>>]

IdleMem ==
    /\ heap = <<>>
    /\ held = [handles |-> {}, results |-> {}, released |-> {}]
    /\ calls = <<>>

----------------------------------------------------------------------------
(* The resolver on its own: one world per run, any number of lookups.      *)

\* /p is a project, /out lies outside it, /plink is a link to the project,
\* /c holds the package acme/lib.  /p/link and the version directory of
\* the package vary.
BaseTree ==
    (<<>> :> Dir) @@ (<<"p">> :> Dir) @@ (<<"p", "a">> :> File)
    @@ (<<"out">> :> Dir) @@ (<<"out", "a">> :> File)
    @@ (<<"plink">> :> Link(AbsPath(<<"p">>)))
    @@ (<<"c">> :> Dir) @@ (<<"c", "acme">> :> Dir)
    @@ (<<"c", "acme", "lib">> :> Dir)

LinkTargets ==
    {AbsPath(<<"out">>), RelPath(<<"..", "out">>), AbsPath(<<"p", "link">>)}

ProjectLinkTrees ==
    {<<>> :> Dir} \cup {<<"p", "link">> :> Link(t) : t \in LinkTargets}

VersionDir == <<"c", "acme", "lib", "1.0.0">>

VersionTrees ==
    { <<>> :> Dir,
      (VersionDir :> Dir) @@ (Append(VersionDir, "a") :> File),
      VersionDir :> Link(AbsPath(<<"p">>)) }

Layouts == {BaseTree @@ l @@ v : l \in ProjectLinkTrees, v \in VersionTrees}

Roots ==
    {None, Some(AbsPath(<<"p">>)), Some(AbsPath(<<"plink">>)),
     Some(AbsPath(<<"missing">>)), Some(RelPath(<<"p">>))}

PackageCaches ==
    {None, Some(AbsPath(<<"c">>)), Some(AbsPath(<<"missing">>)),
     Some(AbsPath(<<"p">>))}

VpathComponents == {"..", "a", "link", "out", "p"}

RECURSIVE SeqsUpTo(_, _)
SeqsUpTo(S, n) ==
    IF n = 0 THEN {<<>>}
    ELSE LET shorter == SeqsUpTo(S, n - 1)
         IN shorter \cup {Append(s, x) : s \in shorter, x \in S}

Vpaths == SeqsUpTo(VpathComponents, MaxVpathLen)

Packages == {None, Some(PackageSpec("acme", "lib", "1.0.0"))}

FileIds == {FileId(pkg, vp) : pkg \in Packages, vp \in Vpaths}

NoLookup == [op |-> "none"]

InitResolve ==
    /\ fs \in Layouts
    /\ world = NoWorld
    /\ lookup = NoLookup
    /\ IdleFonts /\ IdleCompile /\ IdleMem

\* SingleSourceWorld::new with the roots of the call.
NewWorld ==
    /\ ~world.built
    /\ \E root \in Roots, package_cache \in PackageCaches :
          world' = SingleSourceWorld_new(<<>>, root, package_cache)
    /\ UNCHANGED <<fs, lookup, fontVars, compileVars, memVars>>

\* One call of resolve_path; its result is held until the caller takes it.
ResolvePath ==
    /\ world.built
    /\ lookup = NoLookup
    /\ \E id \in FileIds :
          lookup' = [op |-> "resolve_path", id |-> id,
                     res |-> resolve_path(world, id)]
    /\ UNCHANGED <<fs, world, fontVars, compileVars, memVars>>

\* The caller takes the result; the world is ready for the next lookup.
LookupReturn ==
    /\ lookup # NoLookup
    /\ lookup' = NoLookup
    /\ UNCHANGED <<fs, world, fontVars, compileVars, memVars>>

NextResolve == NewWorld \/ ResolvePath \/ LookupReturn

SpecResolve == InitResolve /\ [][NextResolve]_vars

----------------------------------------------------------------------------
(* Claims about the resolver. *)

Resolved == lookup.op = "resolve_path" /\ lookup.res.tag = "Ok"

\* The base root of a reference as the resolver's contract names it: the
\* project root, or package_cache/namespace/name/version.
BaseRootOf(w, id) ==
    IF id.package.some
    THEN IF w.package_cache.some
         THEN Some(join(w.package_cache.val,
                        <<id.package.val.namespace, id.package.val.name,
                          id.package.val.version>>))
         ELSE None
    ELSE w.root

\* C1: whenever resolve_path returns a path, the path is the canonicalized
\* candidate (base root joined with the virtual path) and has the
\* canonicalized base root of the reference's domain as a prefix.
C1_ResolvedInsideCanonicalBase ==
    Resolved =>
        LET base == BaseRootOf(world, lookup.id) IN
        /\ base.some
        /\ canonicalize(base.val).ok
        /\ canonicalize(join(base.val, lookup.id.vpath)).ok
        /\ lookup.res.val = canonicalize(join(base.val, lookup.id.vpath)).path
        /\ starts_with(lookup.res.val, canonicalize(base.val).path)

\* A path is returned for a reference that holds a `..` segment.
C1_Witness ==
    /\ Resolved
    /\ \E i \in DOMAIN lookup.id.vpath : lookup.id.vpath[i] = ".."
    /\ \A i \in DOMAIN lookup.id.vpath :
          (lookup.id.vpath[i] = ".." /\ i > 1) => lookup.id.vpath[i - 1] = ".."

\* Where a path leads when what is missing is taken as written (realpath -m).
RECURSIVE WalkLexical(_, _, _)
WalkLexical(cur, rest, fuel) ==
    IF rest = <<>> THEN cur
    ELSE LET c == Head(rest) IN
         IF c = "." THEN WalkLexical(cur, Tail(rest), fuel)
         ELSE IF c = ".." THEN WalkLexical(Parent(cur), Tail(rest), fuel)
         ELSE LET p == Append(cur, c) IN
              IF p \in DOMAIN fs /\ fs[p].kind = "link" /\ fuel > 0
              THEN WalkLexical(IF fs[p].target.abs THEN <<>> ELSE cur,
                               fs[p].target.comps \o Tail(rest), fuel - 1)
              ELSE WalkLexical(p, Tail(rest), fuel)

LexicalTarget(path) ==
    WalkLexical(IF path.abs THEN <<>> ELSE Cwd, path.comps, MaxLinkDepth)

HasDotDot(vpath) == \E i \in DOMAIN vpath : vpath[i] = ".."

\* A virtual path as VirtualPath::new leaves it: `..` only at the front.
Normalised(vpath) ==
    \A i \in DOMAIN vpath : (vpath[i] = ".." /\ i > 1) => vpath[i - 1] = ".."

\* An unscoped reference whose target lies outside the configured, existing
\* root.
EscapingLookup ==
    /\ lookup.op = "resolve_path"
    /\ ~lookup.id.package.some
    /\ world.root.some
    /\ canonicalize(world.root.val).ok
    /\ ~starts_with(LexicalTarget(join(world.root.val, lookup.id.vpath)),
                    canonicalize(world.root.val).path)

\* C2 as stated: every reference with `..` segments that escapes the root is
\* rejected with AccessDenied.
C2_EscapeIsAccessDenied ==
    (EscapingLookup /\ HasDotDot(lookup.id.vpath)
        /\ Normalised(lookup.id.vpath))
      => lookup.res.tag = "AccessDenied"

\* C2 as amended: a reference that escapes the root, by `..` segments or by a
\* link, is never resolved; it is rejected with AccessDenied when the
\* candidate path exists and with NotFound when it does not exist.
C2_EscapeIsRejected ==
    EscapingLookup =>
        LET c == canonicalize(join(world.root.val, lookup.id.vpath)) IN
        /\ lookup.res.tag # "Ok"
        /\ c.ok => lookup.res.tag = "AccessDenied"
        /\ ~c.ok => lookup.res.tag = "NotFound"

\* A reference with leading `..` segments that escapes to an existing path is
\* rejected with AccessDenied.
C2_Witness ==
    /\ EscapingLookup
    /\ HasDotDot(lookup.id.vpath)
    /\ Normalised(lookup.id.vpath)
    /\ lookup.res.tag = "AccessDenied"

\* C3: resolve_path returns NotFound when the root of the reference's domain
\* is not configured or when the base root does not canonicalize.
C3_MissingRootIsNotFound ==
    lookup.op = "resolve_path" =>
        LET base == BaseRootOf(world, lookup.id) IN
        (~base.some \/ ~canonicalize(base.val).ok)
            => lookup.res.tag = "NotFound"

\* An unscoped lookup under a configured root that does not exist.
C3_Witness ==
    /\ lookup.op = "resolve_path"
    /\ ~lookup.id.package.some
    /\ world.root.some
    /\ ~canonicalize(world.root.val).ok

InTree(path, root) ==
    /\ root.some
    /\ canonicalize(root.val).ok
    /\ starts_with(path, canonicalize(root.val).path)

\* C4 as stated: under every configuration a package reference never
\* resolves inside the project-root tree and an unscoped reference never
\* resolves inside the package-cache tree.
C4_NeverInOtherTree ==
    Resolved =>
        IF lookup.id.package.some
        THEN ~InTree(lookup.res.val, world.root)
        ELSE ~InTree(lookup.res.val, world.package_cache)

Disjoint(a, b) == ~starts_with(a, b) /\ ~starts_with(b, a)

\* C4 as amended: a resolved path lies under the canonical base root of its
\* own domain, and it lies outside the other domain's tree whenever that
\* tree and the canonical base root are disjoint.
C4_OtherTreeOnlyByOverlap ==
    Resolved =>
        /\ BaseRootOf(world, lookup.id).some
        /\ canonicalize(BaseRootOf(world, lookup.id).val).ok
        /\ LET base == canonicalize(BaseRootOf(world, lookup.id).val).path
               other == IF lookup.id.package.some THEN world.root
                        ELSE world.package_cache
           IN /\ starts_with(lookup.res.val, base)
              /\ (other.some /\ canonicalize(other.val).ok
                  /\ Disjoint(base, canonicalize(other.val).path))
                    => ~InTree(lookup.res.val, other)

\* A package reference resolves while a disjoint project root is configured.
C4_Witness ==
    /\ Resolved
    /\ lookup.id.package.some
    /\ world.root.some
    /\ canonicalize(world.root.val).ok
    /\ Disjoint(canonicalize(BaseRootOf(world, lookup.id).val).path,
                canonicalize(world.root.val).path)

----------------------------------------------------------------------------
(* The font loader: SharedResources::new. *)

\* A font blob is known by the faces it holds: faces[i + 1] tells whether
\* Font::new(bytes, i) decodes.  Past the last entry nothing decodes.
Blobs == SeqsUpTo(BOOLEAN, MaxFaces)

\* typst_assets::fonts(): the bundled blobs.
BundledLists == {<<>>} \cup {<<b>> : b \in Blobs}

CustomLists == SeqsUpTo(Blobs, MaxCustomFonts)

\* Font::new(bytes, index) for blob number `i` of list `list`.
Font_new(list, i, blob, index) ==
    IF index < Len(blob) /\ blob[index + 1]
    THEN Some([list |-> list, blob |-> i, index |-> index])
    ELSE None

\* font.info()
info(font) == [describes |-> font]

\* book.push(font.info().clone())
BookPush_front(book, font) == <<info(font)>> \o book

BookPush(book, font) == Append(book, info(font))

\* One turn of `for index in 0..`: push the face, or break to the next blob.
FaceStep(l, list, blob) ==
    LET f == Font_new(list, l.blob_i, blob, l.index) IN
    IF f.some
    THEN [l EXCEPT !.fonts = Append(@, f.val), !.index = @ + 1]
    ELSE [l EXCEPT !.blob_i = @ + 1, !.index = 0]

InitFonts ==
    /\ font_data \in [bundled : BundledLists, custom : CustomLists]
    /\ loader = [phase |-> "bundled", blob_i |-> 1, index |-> 0,
                 fonts |-> <<>>, book |-> <<>>]
    /\ IdleResolve /\ IdleCompile /\ IdleMem

\* Load bundled fonts.
LoadBundledFace ==
    /\ loader.phase = "bundled"
    /\ loader.blob_i <= Len(font_data.bundled)
    /\ loader' = FaceStep(loader, "bundled",
                          font_data.bundled[loader.blob_i])
    /\ UNCHANGED <<font_data, resolveVars, compileVars, memVars>>

BundledDone ==
    /\ loader.phase = "bundled"
    /\ loader.blob_i > Len(font_data.bundled)
    /\ loader' = [loader EXCEPT !.phase = "custom", !.blob_i = 1, !.index = 0]
    /\ UNCHANGED <<font_data, resolveVars, compileVars, memVars>>

\* Load custom fonts.
LoadCustomFace ==
    /\ loader.phase = "custom"
    /\ loader.blob_i <= Len(font_data.custom)
    /\ loader' = FaceStep(loader, "custom", font_data.custom[loader.blob_i])
    /\ UNCHANGED <<font_data, resolveVars, compileVars, memVars>>

CustomDone ==
    /\ loader.phase = "custom"
    /\ loader.blob_i > Len(font_data.custom)
    /\ loader' = [loader EXCEPT !.phase = "book"]
    /\ UNCHANGED <<font_data, resolveVars, compileVars, memVars>>

\* for font in &fonts { book.push(..) }
BuildBook ==
    /\ loader.phase = "book"
    /\ Len(loader.book) < Len(loader.fonts)
    /\ loader' = [loader EXCEPT
                    !.book = BookPush(@, loader.fonts[Len(loader.book) + 1])]
    /\ UNCHANGED <<font_data, resolveVars, compileVars, memVars>>

\* SharedResources { library, book, fonts, main_id }
BookDone ==
    /\ loader.phase = "book"
    /\ Len(loader.book) = Len(loader.fonts)
    /\ loader' = [loader EXCEPT !.phase = "done"]
    /\ UNCHANGED <<font_data, resolveVars, compileVars, memVars>>

NextFonts ==
    \/ LoadBundledFace \/ BundledDone \/ LoadCustomFace \/ CustomDone
    \/ BuildBook \/ BookDone

SpecFonts == InitFonts /\ [][NextFonts]_vars

----------------------------------------------------------------------------
(* Claims about the font loader. *)

\* k_i: the index at which decoding of a blob first fails.
RECURSIVE DecodableFrom(_, _)
DecodableFrom(blob, index) ==
    IF index < Len(blob) /\ blob[index + 1]
    THEN 1 + DecodableFrom(blob, index + 1)
    ELSE 0

K(blob) == DecodableFrom(blob, 0)

RECURSIVE SumK(_)
SumK(list) == IF list = <<>> THEN 0 ELSE K(Head(list)) + SumK(Tail(list))

\* The faces 0 .. k_i - 1 of every blob of a list, blob after blob.
RECURSIVE FacesOf(_, _, _)
FacesOf(listname, list, i) ==
    IF i > Len(list) THEN <<>>
    ELSE [n \in 1..K(list[i]) |->
             [list |-> listname, blob |-> i, index |-> n - 1]]
         \o FacesOf(listname, list, i + 1)

\* C9: the face table has one face per decodable index, sum of k_i in all,
\* bundled blobs first and then caller blobs in the order given, and book
\* entry j describes face j.
C9_FaceTableAndBookParallel ==
    loader.phase = "done" =>
        /\ Len(loader.fonts)
             = SumK(font_data.bundled) + SumK(font_data.custom)
        /\ loader.fonts = FacesOf("bundled", font_data.bundled, 1)
                          \o FacesOf("custom", font_data.custom, 1)
        /\ Len(loader.book) = Len(loader.fonts)
        /\ \A j \in 1..Len(loader.fonts) :
              loader.book[j] = info(loader.fonts[j])

\* The build ends with a caller blob that fails at index 0, a caller blob
\* that decodes one face and holds a decodable face after the failing index,
\* and a bundled face before them.
C9_Witness ==
    /\ loader.phase = "done"
    /\ Len(font_data.bundled) = 1 /\ K(font_data.bundled[1]) >= 1
    /\ Len(font_data.custom) = 2
    /\ font_data.custom[1] = <<FALSE, TRUE>>
    /\ K(font_data.custom[2]) >= 1
    /\ Len(loader.fonts) >= 2

----------------------------------------------------------------------------
(* Text: std::str::from_utf8 and PathBuf::from. *)

Utf8Width(b) ==
    IF b < 128 THEN 1
    ELSE IF b \in 194..223 THEN 2
    ELSE IF b \in 224..239 THEN 3
    ELSE IF b \in 240..244 THEN 4
    ELSE 0

IsContinuation(b) == b \in 128..191

\* The range of the byte that follows lead byte b.
SecondByteOk(b, c) ==
    IF b = 224 THEN c \in 160..191
    ELSE IF b = 237 THEN c \in 128..159
    ELSE IF b = 240 THEN c \in 144..191
    ELSE IF b = 244 THEN c \in 128..143
    ELSE IsContinuation(c)

\* std::str::from_utf8: Ok(the code points) or Err.
RECURSIVE from_utf8(_)
from_utf8(bytes) ==
    IF bytes = <<>> THEN [ok |-> TRUE, text |-> <<>>]
    ELSE LET b == Head(bytes)
             w == Utf8Width(b)
         IN IF w = 0 \/ Len(bytes) < w THEN [ok |-> FALSE]
            ELSE IF w > 1 /\ ~SecondByteOk(b, bytes[2]) THEN [ok |-> FALSE]
            ELSE IF \E i \in 3..w : ~IsContinuation(bytes[i])
                 THEN [ok |-> FALSE]
            ELSE LET cp == IF w = 1 THEN b
                           ELSE IF w = 2
                                THEN (b - 192) * 64 + (bytes[2] - 128)
                           ELSE IF w = 3
                                THEN (b - 224) * 4096 + (bytes[2] - 128) * 64
                                     + (bytes[3] - 128)
                           ELSE (b - 240) * 262144 + (bytes[2] - 128) * 4096
                                + (bytes[3] - 128) * 64 + (bytes[4] - 128)
                     rest == from_utf8(SubSeq(bytes, w + 1, Len(bytes)))
                 IN IF rest.ok
                    THEN [ok |-> TRUE, text |-> <<cp>> \o rest.text]
                    ELSE [ok |-> FALSE]

\* The characters path names are made of here.
Chr(cp) ==
    CASE cp = 46 -> "."
      [] cp = 97 -> "a"
      [] cp = 99 -> "c"
      [] cp = 112 -> "p"
      [] cp = 113 -> "q"
      [] OTHER -> "?"

\* Path::components of a string: split at '/', drop empty names and `.`
\* (a leading `.` of a relative path stays).
RECURSIVE Components(_, _, _, _)
Components(text, cur, acc, abs) ==
    LET keep == cur # "" /\ (cur # "." \/ (~abs /\ acc = <<>>))
        acc2 == IF keep THEN Append(acc, cur) ELSE acc
    IN IF text = <<>> THEN acc2
       ELSE IF Head(text) = 47 THEN Components(Tail(text), "", acc2, abs)
       ELSE Components(Tail(text), cur \o Chr(Head(text)), acc, abs)

PathBuf_from(text) ==
    LET abs == text # <<>> /\ text[1] = 47
    IN [abs |-> abs, comps |-> Components(text, "", <<>>, abs)]

----------------------------------------------------------------------------
(* The World methods the engine calls back. *)

\* std::fs::read of a canonical path.
read(path) ==
    IF fs[path].kind = "file" THEN [ok |-> TRUE, bytes |-> fs[path].bytes]
    ELSE [ok |-> FALSE]

Source_new(id, text) == [id |-> id, text |-> text]

\* World::source
source_nomain(w, id) ==
    LET path == resolve_path(w, id) IN
    IF path.tag # "Ok" THEN path
    ELSE LET data == read(path.val)
             text == IF data.ok THEN from_utf8(data.bytes) ELSE [ok |-> FALSE]
         IN IF ~text.ok THEN NotFound(id.vpath)
            ELSE Ok(Source_new(id, text.text))

source(w, id) ==
    IF id = w.source.id THEN Ok(w.source)
    ELSE LET path == resolve_path(w, id) IN
         IF path.tag # "Ok" THEN path
         ELSE LET data == read(path.val)
                  text == IF data.ok THEN from_utf8(data.bytes)
                          ELSE [ok |-> FALSE]
              IN IF ~text.ok THEN NotFound(id.vpath)
                 ELSE Ok(Source_new(id, text.text))

\* World::file
file(w, id) ==
    LET path == resolve_path(w, id) IN
    IF path.tag # "Ok" THEN path
    ELSE LET data == read(path.val) IN
         IF ~data.ok THEN NotFound(id.vpath)
         ELSE Ok(data.bytes)

\* The file system operations one lookup makes.
LookupFsOps(w, id, op) ==
    LET pkg == id.package.some
        base_canon == pkg /\ w.package_cache.some
        base_ok == IF pkg
                   THEN PackageBase(w, id.package.val, id.vpath).ok
                   ELSE LocalBase(w, id.vpath).ok
    IN IF op = "source" /\ id = w.source.id THEN {}
       ELSE (IF base_canon \/ base_ok THEN {"canonicalize"} ELSE {})
            \cup (IF resolve_path(w, id).tag = "Ok" THEN {"read"} ELSE {})

----------------------------------------------------------------------------
(* One call of typst_world_compile. *)

\* A (pointer, length) argument: whether the pointer is null, and the bytes.
NullBuf == [ptr_null |-> TRUE, bytes |-> <<>>]
Buf(bytes) == [ptr_null |-> FALSE, bytes |-> bytes]

\* "", "A", "e-acute", the euro sign; a lead byte cut short, a byte that is
\* never valid, a continuation byte on its own.
SourceInputs ==
    {<<>>, <<65>>, <<195, 169>>, <<226, 130, 172>>,
     <<65, 195>>, <<255>>, <<169>>}

\* null, empty, "/p", "p", "/q" (not on disk), "/" followed by a bad byte
RootInputs ==
    {NullBuf, Buf(<<>>), Buf(<<47, 112>>), Buf(<<112>>), Buf(<<47, 113>>),
     Buf(<<47, 255>>)}

\* null, empty, "/c", "/q" (not on disk), a bad byte
PackageInputs ==
    {NullBuf, Buf(<<>>), Buf(<<47, 99>>), Buf(<<47, 113>>), Buf(<<255>>)}

\* /p/bin is a file that is not UTF-8.
CompileLayout ==
    BaseTree @@ (<<"p", "bin">> :> FileWith(<<255>>))
    @@ (VersionDir :> Dir) @@ (Append(VersionDir, "a") :> File)

\* The file references the engine looks up.
CompileIds ==
    {main_id, FileId(None, <<"a">>), FileId(None, <<"bin">>),
     FileId(None, <<"..", "out", "a">>),
     FileId(Some(PackageSpec("acme", "lib", "1.0.0")), <<"a">>)}

Messages == {"unknown variable", "file not found"}
Diagnostics == SeqsUpTo(Messages, MaxDiag)

\* "%PDF" and "%PDF-"
PdfOutputs == {<<37, 80, 68, 70>>, <<37, 80, 68, 70, 45>>}

\* What the Display of a Utf8Error says.
Utf8ErrorText == "invalid utf-8 sequence"

\* make_error: the message, its length, the error flag.
make_error(msg) == [data |-> msg, len |-> Len(msg), error |-> 1]

\* The success arm: the PDF bytes, their length, no error flag.
make_success(pdf_bytes) ==
    [data |-> pdf_bytes, len |-> Len(pdf_bytes), error |-> 0]

\* slice::from_raw_parts(source_ptr, source_len), then from_utf8 or return.
DecodeSourceBytes_lossy(bytes) ==
    LET r == from_utf8(bytes) IN
    IF r.ok THEN [ok |-> TRUE, text |-> r.text]
    ELSE [ok |-> TRUE, text |-> <<65533>>]

DecodeSourceBytes(bytes) ==
    LET r == from_utf8(bytes) IN
    IF r.ok THEN [ok |-> TRUE, text |-> r.text]
    ELSE [ok |-> FALSE,
          result |-> make_error("invalid UTF-8 input: " \o Utf8ErrorText)]

\* An optional root: NULL/0 = disabled, undecodable = disabled.
DecodeRootArg(buf) ==
    IF ~buf.ptr_null /\ Len(buf.bytes) > 0
    THEN LET r == from_utf8(buf.bytes) IN
         IF r.ok THEN Some(PathBuf_from(r.text)) ELSE None
    ELSE None

RECURSIVE WriteLines(_, _, _)
WriteLines(msg, prefix, list) ==
    IF list = <<>> THEN msg
    ELSE WriteLines(msg \o prefix \o Head(list) \o "\n", prefix, Tail(list))

\* The message of a failed step: the warnings, then the errors.
DiagnosticText_errorsfirst(warnings, errors, prefix) ==
    WriteLines(WriteLines("", prefix, errors), "warning: ", warnings)

DiagnosticText(warnings, errors, prefix) ==
    WriteLines(WriteLines("", "warning: ", warnings), prefix, errors)

InitCompile ==
    /\ fs = CompileLayout
    /\ world = NoWorld
    /\ lookup = NoLookup
    /\ IdleCompile /\ IdleFonts /\ IdleMem

\* The caller enters typst_world_compile.
CompileCall ==
    /\ cpc = "idle"
    /\ \E src \in SourceInputs, root \in RootInputs, pkg \in PackageInputs :
          call' = [made |-> TRUE, source |-> src, root |-> root, pkg |-> pkg]
    /\ cpc' = "decode_source"
    /\ UNCHANGED <<locals, engine_out, result, effects,
                   resolveVars, fontVars, memVars>>

DecodeSource ==
    /\ cpc = "decode_source"
    /\ LET d == DecodeSourceBytes(call.source) IN
       IF d.ok
       THEN /\ locals' = [locals EXCEPT !.source_text = Some(d.text)]
            /\ cpc' = "decode_root"
            /\ UNCHANGED result
       ELSE /\ result' = Some(d.result)
            /\ cpc' = "done"
            /\ UNCHANGED locals
    /\ UNCHANGED <<call, engine_out, effects, resolveVars, fontVars, memVars>>

DecodeRoot ==
    /\ cpc = "decode_root"
    /\ locals' = [locals EXCEPT !.root = DecodeRootArg(call.root)]
    /\ cpc' = "decode_package_cache"
    /\ UNCHANGED <<call, engine_out, result, effects,
                   resolveVars, fontVars, memVars>>

DecodePackageCache ==
    /\ cpc = "decode_package_cache"
    /\ locals' = [locals EXCEPT !.package_cache = DecodeRootArg(call.pkg)]
    /\ cpc' = "new_world"
    /\ UNCHANGED <<call, engine_out, result, effects,
                   resolveVars, fontVars, memVars>>

\* SingleSourceWorld::new, then typst::compile is entered.
BuildWorld ==
    /\ cpc = "new_world"
    /\ world' = SingleSourceWorld_new(locals.source_text.val, locals.root,
                                      locals.package_cache)
    /\ effects' = [fs_ops |-> effects.fs_ops \cup
                              (IF locals.root.some
                               THEN {"canonicalize_root"} ELSE {}),
                   steps |-> Append(effects.steps, "world_new")]
    /\ cpc' = "engine"
    /\ UNCHANGED <<call, locals, engine_out, result, fs, lookup,
                   fontVars, memVars>>

\* The engine calls World::source or World::file.
EngineLookup ==
    /\ cpc = "engine"
    /\ lookup = NoLookup
    /\ \E id \in CompileIds, op \in {"source", "file"} :
          /\ lookup' = [op |-> op, id |-> id,
                        res |-> IF op = "source" THEN source(world, id)
                                ELSE file(world, id)]
          /\ effects' = [effects EXCEPT
                           !.fs_ops = @ \cup LookupFsOps(world, id, op)]
    /\ UNCHANGED <<call, cpc, locals, engine_out, result, fs, world,
                   fontVars, memVars>>

\* typst::compile returns its output and its warnings.
EngineReturn ==
    /\ cpc = "engine"
    /\ lookup = NoLookup
    /\ \E ok \in BOOLEAN, warnings \in Diagnostics, errors \in Diagnostics :
          /\ ok => errors = <<>>
          /\ engine_out' = [engine_out EXCEPT
                              !.compiled = Some([ok |-> ok,
                                                 warnings |-> warnings,
                                                 errors |-> errors])]
    /\ effects' = [effects EXCEPT !.steps = Append(@, "compile")]
    /\ cpc' = "compiled"
    /\ UNCHANGED <<call, locals, result, resolveVars, fontVars, memVars>>

\* Err(errors) of typst::compile: the diagnostics become the result.
CompileFailed ==
    /\ cpc = "compiled"
    /\ ~engine_out.compiled.val.ok
    /\ result' = Some(make_error(
                     DiagnosticText(engine_out.compiled.val.warnings,
                                    engine_out.compiled.val.errors,
                                    "compile error: ")))
    /\ cpc' = "done"
    /\ UNCHANGED <<call, locals, engine_out, effects,
                   resolveVars, fontVars, memVars>>

\* Ok(document): typst_pdf::pdf is called and its outcome becomes the result.
Render ==
    /\ cpc = "compiled"
    /\ engine_out.compiled.val.ok
    /\ \/ \E pdf_bytes \in PdfOutputs :
             /\ engine_out' = [engine_out EXCEPT
                                 !.rendered = Some([ok |-> TRUE,
                                                    bytes |-> pdf_bytes])]
             /\ result' = Some(make_success(pdf_bytes))
       \/ \E errors \in Diagnostics :
             /\ engine_out' = [engine_out EXCEPT
                                 !.rendered = Some([ok |-> FALSE,
                                                    errors |-> errors])]
             /\ result' = Some(make_error(
                              DiagnosticText(
                                  engine_out.compiled.val.warnings,
                                  errors, "pdf export error: ")))
    /\ effects' = [effects EXCEPT !.steps = Append(@, "render")]
    /\ cpc' = "done"
    /\ UNCHANGED <<call, locals, resolveVars, fontVars, memVars>>

NextCompile ==
    \/ CompileCall \/ DecodeSource \/ DecodeRoot \/ DecodePackageCache
    \/ BuildWorld \/ EngineLookup \/ LookupReturn \/ EngineReturn
    \/ CompileFailed \/ Render

SpecCompile == InitCompile /\ [][NextCompile]_vars

----------------------------------------------------------------------------
(* Claims about the compile call. *)

\* A root argument that configures nothing: a null pointer, no bytes, or
\* bytes that are not UTF-8.
Unconfigured(buf) ==
    buf.ptr_null \/ Len(buf.bytes) = 0 \/ ~from_utf8(buf.bytes).ok

NoRootsCall == call.made /\ Unconfigured(call.root) /\ Unconfigured(call.pkg)

\* C5: in a call with no project root and no package-cache root configured,
\* source(main_id) returns the main text of the call, and source(id) for
\* every other id and file(id) for every id fail with NotFound.
C5_OnlyMainWithoutRoots ==
    (NoRootsCall /\ lookup # NoLookup) =>
        IF lookup.op = "source" /\ lookup.id = main_id
        THEN lookup.res
               = Ok(Source_new(main_id, from_utf8(call.source).text))
        ELSE lookup.res = NotFound(lookup.id.vpath)

\* The main source is returned in a call whose root bytes are not UTF-8 and
\* whose package-cache pointer is null.
C5_Witness ==
    /\ NoRootsCall
    /\ ~call.root.ptr_null /\ Len(call.root.bytes) > 0
    /\ call.pkg.ptr_null
    /\ lookup # NoLookup
    /\ lookup.op = "source" /\ lookup.id = main_id
    /\ lookup.res.tag = "Ok"
    /\ Len(lookup.res.val.text) = 1 /\ Len(call.source) = 3

\* C6: once the source bytes are found not to be UTF-8 the call is over with
\* a status-1 result whose text names UTF-8, and no root was canonicalized, no
\* world built, no compile or render step made and no file looked up.
C6_InvalidSourceFailsEarly ==
    (call.made /\ ~from_utf8(call.source).ok /\ cpc # "decode_source") =>
        /\ cpc = "done"
        /\ result.some
        /\ result.val.error = 1
        /\ result.val.data = "invalid UTF-8 input: " \o Utf8ErrorText
        /\ result.val.len = Len(result.val.data)
        /\ effects.fs_ops = {}
        /\ effects.steps = <<>>
        /\ ~world.built
        /\ lookup = NoLookup
        /\ engine_out = [compiled |-> None, rendered |-> None]

\* The call is over for a source that is not UTF-8 while both roots were
\* passed as decodable, non-empty paths.
C6_Witness ==
    /\ cpc = "done"
    /\ ~from_utf8(call.source).ok
    /\ DecodeRootArg(call.root).some
    /\ DecodeRootArg(call.pkg).some

RECURSIVE Concat(_)
Concat(lines) ==
    IF lines = <<>> THEN "" ELSE Head(lines) \o Concat(Tail(lines))

\* One line per message: the prefix, the message, a line feed.
LinesOf(prefix, list) ==
    [i \in 1..Len(list) |-> prefix \o list[i] \o "\n"]

WarningsThenErrors(warnings, prefix, errors) ==
    Concat(LinesOf("warning: ", warnings) \o LinesOf(prefix, errors))

\* C10: the call ends with status 0 and the rendered bytes exactly when the
\* source decoded and the compile and the render step both succeeded; the
\* render step is made only after a compile step that succeeded; every other
\* call ends with status 1, and after a failed compile or render step the
\* text is every warning line in order, then every error line in order.
C10_StatusAndDiagnostics ==
    LET c == engine_out.compiled
        r == engine_out.rendered
        all_ok == /\ from_utf8(call.source).ok
                  /\ c.some /\ c.val.ok
                  /\ r.some /\ r.val.ok
    IN /\ (r.some \/ \E i \in DOMAIN effects.steps :
                         effects.steps[i] = "render")
            => /\ c.some /\ c.val.ok
               /\ effects.steps = <<"world_new", "compile", "render">>
       /\ cpc = "done" =>
            /\ result.some
            /\ result.val.error \in {0, 1}
            /\ result.val.error = 0 <=> all_ok
            /\ result.val.len = Len(result.val.data)
            /\ all_ok => result.val.data = r.val.bytes
            /\ (c.some /\ ~c.val.ok) =>
                  /\ ~r.some
                  /\ result.val.data
                       = WarningsThenErrors(c.val.warnings,
                                            "compile error: ", c.val.errors)
            /\ (r.some /\ ~r.val.ok) =>
                  result.val.data
                    = WarningsThenErrors(c.val.warnings,
                                         "pdf export error: ", r.val.errors)

\* The render step fails after a compile step that gave two warnings.
C10_Witness ==
    /\ cpc = "done"
    /\ engine_out.rendered.some
    /\ ~engine_out.rendered.val.ok
    /\ Len(engine_out.compiled.val.warnings) >= 2
    /\ Len(engine_out.rendered.val.errors) >= 1
    /\ result.val.error = 1

----------------------------------------------------------------------------
(* The boundary: handles, result buffers and the calls of several threads. *)

\* The null pointer, and the dangling pointer of an empty boxed slice.
NULL == 0
Dangling == -1

\* The threads that call typst_world_compile at the same time.
Threads == {"t1", "t2"}

\* typst_assets::fonts() as the boundary sees it: one blob with one face.
BundledFonts == <<<<TRUE>>>>

\* The font arguments of typst_world_new: none, one blob, a count with a
\* null pointer array.
FontArgs ==
    {[ptrs_null |-> TRUE, lens_null |-> TRUE, count |-> 0, blobs |-> <<>>],
     [ptrs_null |-> FALSE, lens_null |-> FALSE, count |-> 1,
      blobs |-> <<<<TRUE, TRUE>>>>],
     [ptrs_null |-> TRUE, lens_null |-> FALSE, count |-> 1,
      blobs |-> <<<<TRUE>>>>]}

\* The custom font slices typst_world_new hands to SharedResources::new.
CustomFontData(args) ==
    IF args.count > 0 /\ ~args.ptrs_null /\ ~args.lens_null
    THEN args.blobs ELSE <<>>

RECURSIVE LoadBlob(_, _, _, _)
LoadBlob(list, i, blob, index) ==
    LET f == Font_new(list, i, blob, index) IN
    IF f.some THEN <<f.val>> \o LoadBlob(list, i, blob, index + 1) ELSE <<>>

RECURSIVE LoadList(_, _, _)
LoadList(listname, list, i) ==
    IF i > Len(list) THEN <<>>
    ELSE LoadBlob(listname, i, list[i], 0) \o LoadList(listname, list, i + 1)

\* SharedResources::new, start to end.
SharedResources_new(custom_font_data) ==
    LET fonts == LoadList("bundled", BundledFonts, 1)
                 \o LoadList("custom", custom_font_data, 1)
    IN [library |-> <<"Library::default">>,
        book |-> [j \in 1..Len(fonts) |-> info(fonts[j])],
        fonts |-> fonts,
        main_id |-> main_id]

\* The source text each thread compiles: "A" and "B".
CallText(t) == IF t = "t1" THEN <<65>> ELSE <<66>>

\* How a call ends: a PDF, a diagnostic text, or an engine failure that
\* reports nothing at all.
Outcomes == {"pdf", "diagnostics", "nothing"}

\* typst::compile and typst_pdf::pdf: a function of what the World shows.
Typeset(library, book, fonts, src) ==
    [library |-> library, book |-> book, fonts |-> fonts, source |-> src]

\* The bytes of the result buffer.
ResultBytes(outcome, document) ==
    IF outcome = "pdf" THEN <<"%PDF", document>>
    ELSE IF outcome = "diagnostics" THEN <<document>>
    ELSE <<>>

\* `let shared = unsafe { &*world }`: what a call leaves in the resources it
\* borrows.
SharedAfterCall_percall(resources, source_text) ==
    [resources EXCEPT !.library = Append(@, source_text)]

SharedAfterCall(resources, source_text) == resources

\* Box::into_raw(Box::new(resources))
NewHandle(h, resources) ==
    Append(h, [kind |-> "world", live |-> TRUE, frees |-> 0,
               value |-> resources, made |-> resources])

\* into_boxed_slice, as_mut_ptr, mem::forget: the buffer now belongs to the
\* caller.  An empty slice owns no memory and its pointer dangles.
LeakBuffer_dropped(h, bytes) ==
    IF Len(bytes) = 0 THEN [heap |-> h, data |-> Dangling]
    ELSE [heap |-> Append(h, [kind |-> "buffer", live |-> FALSE, frees |-> 1,
                              value |-> bytes, made |-> bytes]),
          data |-> Len(h) + 1]

LeakBuffer(h, bytes) ==
    IF Len(bytes) = 0 THEN [heap |-> h, data |-> Dangling]
    ELSE [heap |-> Append(h, [kind |-> "buffer", live |-> TRUE, frees |-> 0,
                              value |-> bytes, made |-> bytes]),
          data |-> Len(h) + 1]

\* Dropping the Box or the Vec rebuilt from a raw pointer.
Drop(h, ptr) == [h EXCEPT ![ptr].live = FALSE, ![ptr].frees = @ + 1]

\* typst_world_free
typst_world_free(h, world_ptr) ==
    IF world_ptr # NULL THEN Drop(h, world_ptr) ELSE h

\* typst_free_result
typst_free_result(h, data, len) ==
    IF data # NULL /\ len > 0 THEN Drop(h, data) ELSE h

IdleCall == [pc |-> "idle"]

InitMem ==
    /\ heap = <<>>
    /\ held = [handles |-> {}, results |-> {}, released |-> {}]
    /\ calls = [t \in Threads |-> IdleCall]
    /\ IdleResolve /\ IdleFonts /\ IdleCompile

\* typst_world_new
CreateWorld ==
    /\ Len(heap) < MaxAllocs
    /\ \E args \in FontArgs :
          heap' = NewHandle(heap, SharedResources_new(CustomFontData(args)))
    /\ held' = [held EXCEPT !.handles = @ \cup {Len(heap) + 1}]
    /\ UNCHANGED <<calls, resolveVars, fontVars, compileVars>>

\* A thread enters typst_world_compile with a handle the caller holds.
CallBegin(t) ==
    /\ calls[t].pc = "idle"
    /\ Len(heap) < MaxAllocs
    /\ \E h \in held.handles :
          calls' = [calls EXCEPT ![t] = [pc |-> "new_world", handle |-> h,
                                          text |-> CallText(t)]]
    /\ UNCHANGED <<heap, held, resolveVars, fontVars, compileVars>>

\* SingleSourceWorld::new: Source::new(shared.main_id, source_text)
CallBuildWorld(t) ==
    /\ calls[t].pc = "new_world"
    /\ LET c == calls[t]
           shared == heap[c.handle].value
       IN /\ calls' = [calls EXCEPT ![t] =
                         [pc |-> "engine", handle |-> c.handle,
                          text |-> c.text,
                          source |-> Source_new(shared.main_id, c.text)]]
          /\ heap' = [heap EXCEPT ![c.handle].value =
                                       SharedAfterCall(@, c.text)]
    /\ UNCHANGED <<held, resolveVars, fontVars, compileVars>>

\* The engine reads the library, the book and the fonts through the World
\* and comes back with a document or with diagnostics.
CallEngine(t) ==
    /\ calls[t].pc = "engine"
    /\ LET c == calls[t]
           shared == heap[c.handle].value
       IN \E outcome \in Outcomes :
             calls' = [calls EXCEPT ![t] =
                         [pc |-> "return", handle |-> c.handle,
                          text |-> c.text, outcome |-> outcome,
                          bytes |-> ResultBytes(outcome,
                                       Typeset(shared.library, shared.book,
                                               shared.fonts, c.source))]]
    /\ UNCHANGED <<heap, held, resolveVars, fontVars, compileVars>>

\* The TypstResult goes to the caller.
CallReturn(t) ==
    /\ calls[t].pc = "return"
    /\ LET c == calls[t]
           leaked == LeakBuffer(heap, c.bytes)
       IN /\ heap' = leaked.heap
          /\ held' = [held EXCEPT !.results =
                         @ \cup {[data |-> leaked.data, len |-> Len(c.bytes)]}]
          /\ calls' = [calls EXCEPT ![t] = IdleCall]
    /\ UNCHANGED <<resolveVars, fontVars, compileVars>>

InFlight(h) == \E t \in Threads : calls[t].pc # "idle" /\ calls[t].handle = h

\* The caller releases a handle it holds, once no call uses it, or null.
ReleaseHandle ==
    /\ \E world_ptr \in held.handles \cup {NULL} :
          /\ world_ptr # NULL => ~InFlight(world_ptr)
          /\ heap' = typst_world_free(heap, world_ptr)
          /\ held' = [held EXCEPT
                        !.handles = @ \ {world_ptr},
                        !.released = IF world_ptr # NULL
                                     THEN @ \cup {world_ptr} ELSE @]
    /\ UNCHANGED <<calls, resolveVars, fontVars, compileVars>>

\* The caller releases a (data, len) pair it holds, or (null, 0).
ReleaseResult ==
    /\ \E pair \in held.results \cup {[data |-> NULL, len |-> 0]} :
          /\ heap' = typst_free_result(heap, pair.data, pair.len)
          /\ held' = [held EXCEPT
                        !.results = @ \ {pair},
                        !.released = IF pair.data \in DOMAIN heap
                                     THEN @ \cup {pair.data} ELSE @]
    /\ UNCHANGED <<calls, resolveVars, fontVars, compileVars>>

NextMem ==
    \/ CreateWorld \/ ReleaseHandle \/ ReleaseResult
    \/ \E t \in Threads :
          \/ CallBegin(t) \/ CallBuildWorld(t) \/ CallEngine(t)
          \/ CallReturn(t)

SpecMem == InitMem /\ [][NextMem]_vars

----------------------------------------------------------------------------
(* Claims about the boundary. *)

Quiescent ==
    /\ \A t \in Threads : calls[t].pc = "idle"
    /\ held.handles = {}
    /\ held.results = {}

\* C7: every allocation handed across the boundary is freed by the caller's
\* release of it and by nothing else: it is live until the caller releases
\* it, freed exactly once after, it is a handle or a buffer the caller
\* still holds until then, and once the caller has released all it was
\* given and no call runs, every allocation has been freed exactly once.
C7_ExactlyOneRelease ==
    /\ \A a \in DOMAIN heap :
          /\ heap[a].frees <= 1
          /\ heap[a].live <=> heap[a].frees = 0
          /\ heap[a].frees = 1 <=> a \in held.released
          /\ a \notin held.released =>
                IF heap[a].kind = "world" THEN a \in held.handles
                ELSE [data |-> a, len |-> Len(heap[a].value)] \in held.results
    /\ \A pair \in held.results :
          pair.data # NULL /\
          (pair.len > 0 => pair.data \in DOMAIN heap /\ heap[pair.data].live)
    /\ Quiescent => \A a \in DOMAIN heap : heap[a].frees = 1

\* The caller has released a handle and two result buffers, and nothing is
\* left.
C7_Witness ==
    /\ Quiescent
    /\ Len(heap) >= 3
    /\ \E a, b \in DOMAIN heap :
          a # b /\ heap[a].kind = "buffer" /\ heap[b].kind = "buffer"
    /\ \A a \in DOMAIN heap : heap[a].frees = 1

=============================================================================
